---- MODULE Spec2Model ----
(***************************************************************************)
(* Model of the OpenAPI-driven dynamic API client of fastmcp-openapi:      *)
(* OpenAPIClient (construction, operation index, request construction)     *)
(* and register_openapi_tools (tool signatures and the tool wrapper), and   *)
(* AuthenticatedOpenAPIClient (the OAuth2 token kept by get_headers); and  *)
(* of the ThingsBoard server code: ThingsboardClient, the helpers of       *)
(* utils/helpers.py and the alarm rule tools of tools/alarm_rules.py.      *)
(*                                                                         *)
(* Python strings are sequences of one-character strings, Python dicts     *)
(* whose order matters (paths, path items, schema properties) are          *)
(* sequences with distinct keys, the other dicts are functions.            *)
(***************************************************************************)
EXTENDS Integers, Sequences, FiniteSets, TLC

VARIABLES
    spec,            \* OpenAPIClient.spec: the (normalised) OpenAPI document
    custom_headers,  \* AuthenticatedOpenAPIClient.custom_headers
    phase,           \* "new" | "ready" (constructed) | "failed" (__init__ raised)
    pc,              \* "idle" | "done": position of the caller
    call,            \* the call in progress: its name and arguments
    result,          \* what the call returned or raised
    requests,        \* HTTP requests the call sent to the API, in order
    tools,           \* what register_openapi_tools registered with the MCP server
    oauth2,          \* oauth2_client_id, oauth2_client_secret and oauth2_token_url are set
    access_token,    \* AuthenticatedOpenAPIClient.access_token
    token_expires_at, \* AuthenticatedOpenAPIClient.token_expires_at
    origin,          \* the token response each of the two fields was taken from
    now,             \* time.time(), in seconds
    served,          \* the token responses the token endpoint has answered with
    calls,           \* the concurrent calls started
    threads,         \* the concurrent callers of invoke_operation: position and locals
    _auth_token,     \* ThingsboardClient._auth_token
    issued,          \* the tokens the ThingsBoard login endpoint has issued
    profile,         \* the device profile ThingsBoard holds: its alarm rules
    tb               \* the last call into the ThingsBoard server code and its result

clientVars == <<spec, custom_headers, phase, pc, call, result, requests, tools>>
authVars == <<oauth2, access_token, token_expires_at, origin, now, served, calls, threads>>
tbVars == <<_auth_token, issued, profile, tb>>
vars == <<clientVars, authVars, tbVars>>

----------------------------------------------------------------------------
(* Characters and strings *)

LowerCase == <<"a", "b", "e", "g", "o", "p", "q", "s", "t", "v", "x">>
UpperCase == <<"A", "B", "E", "G", "O", "P", "Q", "S", "T", "V", "X">>
Digits == {"0", "2"}

Range(s) == {s[i] : i \in DOMAIN s}

IsLower(c) == c \in Range(LowerCase)
IsUpper(c) == c \in Range(UpperCase)
IsDigit(c) == c \in Digits

\* [a-zA-Z0-9_], which is also \w on the characters of the model
IsWordChar(c) == IsLower(c) \/ IsUpper(c) \/ IsDigit(c) \/ c = "_"

IndexIn(c, s) == CHOOSE i \in DOMAIN s : s[i] = c

\* str.upper() and str.lower() on one character
UpperChar(c) == IF IsLower(c) THEN UpperCase[IndexIn(c, LowerCase)] ELSE c
LowerChar(c) == IF IsUpper(c) THEN LowerCase[IndexIn(c, UpperCase)] ELSE c

upper(s) == [i \in DOMAIN s |-> UpperChar(s[i])]
lower(s) == [i \in DOMAIN s |-> LowerChar(s[i])]

\* str.capitalize(): first character upper case, the rest lower case
capitalize(s) == [i \in DOMAIN s |-> IF i = 1 THEN UpperChar(s[i]) ELSE LowerChar(s[i])]

RECURSIVE Concat(_)
Concat(ss) == IF ss = <<>> THEN <<>> ELSE Head(ss) \o Concat(Tail(ss))

\* position of the first c in s at or after position i, 0 when there is none
RECURSIVE FindFrom(_, _, _)
FindFrom(s, c, i) ==
    IF i > Len(s) THEN 0
    ELSE IF s[i] = c THEN i
    ELSE FindFrom(s, c, i + 1)

Drop(s, n) == SubSeq(s, n + 1, Len(s))

\* re.sub(r'\{.*?\}', '', s): every "{" up to the nearest "}" is removed
RECURSIVE RemoveBraced(_)
RemoveBraced(s) ==
    IF s = <<>> THEN <<>>
    ELSE IF Head(s) = "{" /\ FindFrom(s, "}", 2) # 0
         THEN RemoveBraced(Drop(s, FindFrom(s, "}", 2)))
         ELSE <<Head(s)>> \o RemoveBraced(Tail(s))

\* str.strip("/")
RECURSIVE LStripSlash(_)
LStripSlash(s) == IF s # <<>> /\ Head(s) = "/" THEN LStripSlash(Tail(s)) ELSE s

RECURSIVE RStripSlash(_)
RStripSlash(s) ==
    IF s # <<>> /\ s[Len(s)] = "/" THEN RStripSlash(SubSeq(s, 1, Len(s) - 1)) ELSE s

StripSlash(s) == RStripSlash(LStripSlash(s))

\* str.split("_"): the words between the underscores, empty words included
RECURSIVE SplitUnderscore(_)
SplitUnderscore(s) ==
    LET k == FindFrom(s, "_", 1)
    IN  IF k = 0 THEN <<s>>
        ELSE <<SubSeq(s, 1, k - 1)>> \o SplitUnderscore(Drop(s, k))

----------------------------------------------------------------------------
(* openapi_client.py and register_openapi_tools.py: the string functions *)

\* OpenAPIClient._sanitize_path
_sanitize_path(path) ==
    LET noParams == RemoveBraced(path)
        stripped == StripSlash(noParams)
        joined   == [i \in DOMAIN stripped |->
                        IF stripped[i] = "/" THEN "_" ELSE stripped[i]]
    IN  SelectSeq(joined, IsWordChar)

\* OpenAPIClient._generate_operation_id
_generate_operation_id(method, path) ==
    LET components == SplitUnderscore(_sanitize_path(path))
        words == [i \in DOMAIN components |-> capitalize(components[i])]
    IN  lower(method) \o Concat(words)

\* sanitize_parameter_name: re.sub(r'\W|^(?=\d)', '_', name). A non-word
\* character becomes "_"; the empty match before a leading digit inserts "_".
sanitize_parameter_name(name) ==
    (IF name # <<>> /\ IsDigit(name[1]) THEN <<"_">> ELSE <<>>)
    \o [i \in DOMAIN name |-> IF IsWordChar(name[i]) THEN name[i] ELSE "_"]

\* position of the last c in s, 0 when there is none
RECURSIVE FindLast(_, _, _)
FindLast(s, c, i) ==
    IF i = 0 THEN 0
    ELSE IF s[i] = c THEN i
    ELSE FindLast(s, c, i - 1)

\* faulty variant of RemoveQueryExpansion: the greedy r'\{\?.*\}', which removes
\* up to the last "}" of the path
RECURSIVE RemoveQueryExpansion_greedy(_)
RemoveQueryExpansion_greedy(s) ==
    IF s = <<>> THEN <<>>
    ELSE IF /\ Len(s) >= 2
            /\ s[1] = "{"
            /\ s[2] = "?"
            /\ FindLast(s, "}", Len(s)) >= 3
         THEN RemoveQueryExpansion_greedy(Drop(s, FindLast(s, "}", Len(s))))
         ELSE <<Head(s)>> \o RemoveQueryExpansion_greedy(Tail(s))

\* re.sub(r'\{\?.*?\}', '', path) of invoke_operation
RECURSIVE RemoveQueryExpansion(_)
RemoveQueryExpansion(s) ==
    IF s = <<>> THEN <<>>
    ELSE IF /\ Len(s) >= 2
            /\ s[1] = "{"
            /\ s[2] = "?"
            /\ FindFrom(s, "}", 3) # 0
         THEN RemoveQueryExpansion(Drop(s, FindFrom(s, "}", 3)))
         ELSE <<Head(s)>> \o RemoveQueryExpansion(Tail(s))

\* str.format(**path_params) of invoke_operation: [err, out]. err is "" or
\* the exception format raises; "{{" and "}}" are the escapes of a brace.
RECURSIVE FormatPath(_, _)
FormatPath(s, path_params) ==
    IF s = <<>> THEN [err |-> "", out |-> <<>>]
    ELSE IF Head(s) = "{" /\ Len(s) >= 2 /\ s[2] = "{"
    THEN LET rest == FormatPath(Drop(s, 2), path_params)
         IN  [err |-> rest.err, out |-> <<"{">> \o rest.out]
    ELSE IF Head(s) = "}" /\ Len(s) >= 2 /\ s[2] = "}"
    THEN LET rest == FormatPath(Drop(s, 2), path_params)
         IN  [err |-> rest.err, out |-> <<"}">> \o rest.out]
    ELSE IF Head(s) = "}"
    THEN [err |-> "ValueError: format", out |-> <<>>]
    ELSE IF Head(s) = "{"
    THEN LET k == FindFrom(s, "}", 2)
         IN  IF k = 0 THEN [err |-> "ValueError: format", out |-> <<>>]
             ELSE LET name == SubSeq(s, 2, k - 1)
                  IN  IF name = <<>> THEN [err |-> "IndexError: format", out |-> <<>>]
                      ELSE IF name \notin DOMAIN path_params
                      THEN [err |-> "KeyError: path parameter", out |-> <<>>]
                      ELSE LET rest == FormatPath(Drop(s, k), path_params)
                           IN  [err |-> rest.err,
                                out |-> path_params[name].s \o rest.out]
    ELSE LET rest == FormatPath(Tail(s), path_params)
         IN  [err |-> rest.err, out |-> <<Head(s)>> \o rest.out]

----------------------------------------------------------------------------
(* The values and the OpenAPI documents of the model *)

\* the most arguments a direct invoke_operation call passes
MaxArgs == 2

\* A Python value: its type and its str() rendering
None  == [t |-> "none", s |-> <<"N", "o", "n", "e">>]
Zero  == [t |-> "int", s |-> <<"0">>]
StrV  == [t |-> "str", s |-> <<"v">>]
StrS  == [t |-> "str", s |-> <<"s">>]
Values == {None, Zero, StrV}

\* parameter and property names
N_x   == <<"x">>
N_2v  == <<"2", "-", "v">>
N_s2v == <<"_", "2", "_", "v">>
Names == {N_x, N_2v, N_s2v}

\* keys of a path item
K_get    == <<"g", "e", "t">>
K_post   == <<"p", "o", "s", "t">>
K_ext    == <<"x", "-", "e">>
K_params == <<"p", "a", "r", "a", "m", "e", "t", "e", "r", "s">>
K_summary == <<"s", "u", "m", "m", "a", "r", "y">>
HttpMethods == {K_get, K_post}

\* path templates, as the segments they are written from
Lit(chars) == [seg |-> "lit", text |-> chars]
Var(name)  == [seg |-> "var", text |-> name]
QExp(name) == [seg |-> "qexp", text |-> name]

RenderSegment(g) ==
    CASE g.seg = "lit"  -> g.text
      [] g.seg = "var"  -> <<"{">> \o g.text \o <<"}">>
      [] g.seg = "qexp" -> <<"{", "?">> \o g.text \o <<"}">>

Render(t) == Concat([i \in DOMAIN t |-> RenderSegment(t[i])])

T_ab  == <<Lit(<<"/", "a", "b">>)>>                                  \* /ab
T_a_b == <<Lit(<<"/", "a", "-", "b">>)>>                             \* /a-b
T_x   == <<Lit(<<"/", "a">>), QExp(<<"q">>), Lit(<<"/">>), Var(N_x)>> \* /a{?q}/{x}
Templates == {T_ab, T_a_b, T_x}

\* operationIds written in documents
Id_getAb == <<"g", "e", "t", "A", "b">>
Id_getab == <<"g", "e", "t", "a", "b">>
Id_op    == <<"o", "p">>

Param(name, in, required) == [name |-> name, in |-> in, required |-> required]

\* The value under a key of a path item. kind is the Python type: "dict" for
\* an operation object (or an extension object), "list" for path-level
\* parameters, "str" for a path-level summary. requestBody is "absent",
\* "json" (application/json schema with properties), "noproperties" (schema
\* without properties) or "nojson" (no application/json content).
Operation(hasId, id, params, body, props, req) ==
    [kind |-> "dict", hasOperationId |-> hasId, operationId |-> id,
     parameters |-> params, requestBody |-> body, properties |-> props,
     required |-> req, mentionsOperationId |-> FALSE]

NonOperation(kind, mentions) ==
    [kind |-> kind, hasOperationId |-> FALSE, operationId |-> <<>>,
     parameters |-> <<>>, requestBody |-> "absent", properties |-> <<>>,
     required |-> <<>>, mentionsOperationId |-> mentions]

Entry(key, val) == [key |-> key, val |-> val]

A1 == Operation(FALSE, <<>>, <<>>, "absent", <<>>, <<>>)
A2 == Operation(TRUE, Id_getAb,
                <<Param(N_x, "query", FALSE), Param(N_2v, "header", TRUE)>>,
                "json", <<N_x, N_2v>>, <<N_2v>>)
B1 == Operation(FALSE, <<>>, <<Param(N_2v, "header", TRUE)>>, "absent", <<>>, <<>>)
B2 == Operation(FALSE, <<>>, <<>>, "noproperties", <<>>, <<>>)
B3 == Operation(TRUE, Id_op, <<Param(N_x, "cookie", FALSE)>>, "nojson", <<>>, <<>>)
X1 == Operation(FALSE, <<>>, <<Param(N_x, "path", TRUE)>>, "absent", <<>>, <<>>)
X2 == Operation(TRUE, Id_getab,
                <<Param(N_x, "path", TRUE), Param(N_x, "query", FALSE),
                  Param(N_2v, "cookie", FALSE)>>,
                "absent", <<>>, <<>>)
X3 == Operation(FALSE, <<>>, <<Param(N_x, "path", TRUE)>>,
                "json", <<N_2v>>, <<N_2v>>)

ExtensionObject == Operation(FALSE, <<>>, <<>>, "absent", <<>>, <<>>)
PathParameters  == NonOperation("list", FALSE)
SummaryMentioningOperationId == NonOperation("str", TRUE)
SummaryPlain    == NonOperation("str", FALSE)

ItemsOf(t) ==
    CASE t = T_ab ->
            { <<Entry(K_get, A1)>>,
              <<Entry(K_post, A2)>>,
              <<Entry(K_get, A1), Entry(K_post, A2)>>,
              <<Entry(K_ext, ExtensionObject), Entry(K_get, A1)>>,
              <<Entry(K_summary, SummaryMentioningOperationId), Entry(K_get, A1)>>,
              <<Entry(K_params, PathParameters), Entry(K_get, A1)>>,
              <<Entry(K_summary, SummaryPlain), Entry(K_post, A2)>> }
      [] t = T_a_b ->
            { <<Entry(K_get, B1)>>,
              <<Entry(K_get, B1), Entry(K_post, B2)>>,
              <<Entry(K_post, B3)>> }
      [] t = T_x ->
            { <<Entry(K_get, X1)>>,
              <<Entry(K_get, X2)>>,
              <<Entry(K_post, X3), Entry(K_get, X1)>> }

PathItems ==
    UNION {{[path |-> Render(t), items |-> l] : l \in ItemsOf(t)} : t \in Templates}

\* documents of one path, or of two paths in either order, one of the two
\* holding a single GET operation
SingleGet == {p \in PathItems : Len(p.items) = 1 /\ p.items[1].key = K_get}

PathLists ==
    {<<p>> : p \in PathItems}
    \cup {<<p, r>> : p \in PathItems, r \in SingleGet}
    \cup {<<r, p>> : p \in PathItems, r \in SingleGet}

Url1 == <<"h", "1">>
Url2 == <<"h", "2">>
ServerChoices ==
    { [declared |-> FALSE, list |-> <<>>],           \* no `servers` key
      [declared |-> TRUE,  list |-> <<>>],           \* servers: []
      [declared |-> TRUE,  list |-> <<Url1, Url2>>] }

\* all (path, key, value) triples of a document, in document order
RECURSIVE FlattenFrom(_, _)
FlattenFrom(paths, i) ==
    IF i > Len(paths) THEN <<>>
    ELSE [j \in DOMAIN paths[i].items |->
             [path |-> paths[i].path, method |-> paths[i].items[j].key,
              details |-> paths[i].items[j].val]]
         \o FlattenFrom(paths, i + 1)

Flatten(paths) == FlattenFrom(paths, 1)

IsOperationEntry(e) == e.method \in HttpMethods

Injective(s) == \A i, j \in DOMAIN s : s[i] = s[j] => i = j

\* What validate() of openapi_spec_validator accepts among the documents of
\* the model: a path is a key of `paths` once, and no two operations carry
\* the same written operationId.
ValidDocument(d) ==
    LET all == Flatten(d.paths)
        written == SelectSeq(all, LAMBDA e : IsOperationEntry(e) /\ e.details.hasOperationId)
    IN  /\ Injective([i \in DOMAIN d.paths |-> d.paths[i].path])
        /\ Injective([i \in DOMAIN written |-> written[i].details.operationId])

Documents ==
    {d \in [servers : ServerChoices, paths : PathLists] : ValidDocument(d)}

HeaderChoices == { <<>>, (N_2v :> StrS) }

\* The operations whose signature is synthesized on its own: at most
\* MaxParams declared parameters of distinct names, at most MaxProps
\* requestBody properties, any of them listed as required.
MaxParams == 2
MaxProps == 2

N_q == <<"q">>
N_b == <<"b">>

ParamChoices ==
    {Param(N_x, "query", r) : r \in BOOLEAN}
    \cup {Param(N_2v, "header", r) : r \in BOOLEAN}
    \cup {Param(N_q, "query", r) : r \in BOOLEAN}

SeqsUpTo(S, n) == UNION {[1..k -> S] : k \in 0..n}

ParameterLists ==
    {ps \in SeqsUpTo(ParamChoices, MaxParams) :
        Injective([i \in DOMAIN ps |-> ps[i].name])}

PropertyLists == {ns \in SeqsUpTo({N_q, N_b, N_2v, N_s2v}, MaxProps) : Injective(ns)}

\* the `required` list of a schema names properties of the schema, in
\* schema order
RECURSIVE SubSequences(_)
SubSequences(ns) ==
    IF ns = <<>> THEN {<<>>}
    ELSE LET rest == SubSequences(Tail(ns))
         IN  rest \cup {<<Head(ns)>> \o r : r \in rest}

SignatureOperations ==
    {Operation(FALSE, <<>>, ps, "absent", <<>>, <<>>) : ps \in ParameterLists}
    \cup UNION {UNION {{Operation(FALSE, <<>>, ps, "json", ns, req) :
                           req \in SubSequences(ns)} :
                       ns \in PropertyLists \ {<<>>}} :
                   ps \in ParameterLists}

SignatureDocuments ==
    {[servers |-> [declared |-> TRUE, list |-> <<Url1, Url2>>],
      paths |-> << [path |-> Render(T_ab), items |-> <<Entry(K_get, op)>>] >>] :
        op \in SignatureOperations}

----------------------------------------------------------------------------
(* OpenAPIClient *)

EmptyDict == <<>>

\* faulty variant of Put: dict.setdefault(k, v), which keeps an entry already there
Put_setdefault(d, k, v) == d @@ (k :> v)

\* d[k] = v of a Python dict
Put(d, k, v) == (k :> v) @@ d

\* `'operationId' in operation`: a key of a dict, an element of a list (a
\* list of parameter objects holds no string), a substring of a str
HasOperationIdKey(details) ==
    CASE details.kind = "dict" -> details.hasOperationId
      [] details.kind = "list" -> FALSE
      [] details.kind = "str"  -> details.mentionsOperationId

\* `operation['operationId'] = ...` raises TypeError on a list or a str
SupportsItemAssignment(details) == details.kind = "dict"

\* OpenAPIClient._add_operation_ids: [err, paths]
_add_operation_ids(paths) ==
    LET all == Flatten(paths)
        fill(path, entry) ==
            IF HasOperationIdKey(entry.val) THEN entry
            ELSE [entry EXCEPT !.val.hasOperationId = TRUE,
                               !.val.operationId = _generate_operation_id(entry.key, path)]
    IN  IF \E i \in DOMAIN all :
              ~HasOperationIdKey(all[i].details) /\ ~SupportsItemAssignment(all[i].details)
        THEN [err |-> "TypeError", paths |-> paths]
        ELSE [err |-> "",
              paths |-> [i \in DOMAIN paths |->
                            [paths[i] EXCEPT !.items =
                                [j \in DOMAIN paths[i].items |->
                                    fill(paths[i].path, paths[i].items[j])]]]]

\* OpenAPIClient.__init__ on a valid document: [err, spec]
OpenAPIClient(openapi_spec) ==
    LET all == Flatten(openapi_spec.paths)
        missing_operation_ids ==
            SelectSeq(all, LAMBDA e : ~HasOperationIdKey(e.details))
    IN  IF missing_operation_ids # <<>>
        THEN LET added == _add_operation_ids(openapi_spec.paths)
             IN  [err |-> added.err,
                  spec |-> [openapi_spec EXCEPT !.paths = added.paths]]
        ELSE [err |-> "", spec |-> openapi_spec]

\* OpenAPIClient.get_query_params, get_body: empty unless overridden
get_query_params == EmptyDict
get_body == EmptyDict

\* AuthenticatedOpenAPIClient.get_headers with no OAuth2 credentials
\* configured: a copy of custom_headers
get_headers(headers) == headers

\* OpenAPIClient.get_operations
get_operations(sp) == Flatten(sp.paths)

\* faulty variant of MatchesId: the ids are compared without regard to case
MatchesId_caseless(operation, operation_id) ==
    /\ operation.details.kind = "dict"
    /\ operation.details.hasOperationId
    /\ lower(operation.details.operationId) = lower(operation_id)

\* the test of get_operation_by_id on one entry
MatchesId(operation, operation_id) ==
    /\ operation.details.kind = "dict"
    /\ operation.details.hasOperationId
    /\ operation.details.operationId = operation_id

\* OpenAPIClient.get_operation_by_id: [err, operation]; operation is a
\* sequence of at most one entry, the first that matches
get_operation_by_id(sp, operation_id) ==
    LET operations == get_operations(sp)
        hits == SelectSeq(operations, LAMBDA o : MatchesId(o, operation_id))
    IN  IF hits = <<>>
        THEN [err |-> "ValueError: operation not found", operation |-> <<>>]
        ELSE [err |-> "", operation |-> <<Head(hits)>>]

\* faulty variant of Supplied: `if kwargs.get(param_name):`, which drops 0, False and ""
Supplied_truthy(kwargs, name) ==
    name \in DOMAIN kwargs /\ kwargs[name] # None /\ kwargs[name] # Zero

\* `param_name in kwargs and kwargs[param_name] is not None`
Supplied(kwargs, name) == name \in DOMAIN kwargs /\ kwargs[name] # None

\* the loop over the declared parameters: [path, query, headers]
RECURSIVE RouteParameters(_, _, _)
RouteParameters(parameters, kwargs, acc) ==
    IF parameters = <<>> THEN acc
    ELSE LET parameter == Head(parameters)
             param_name == parameter.name
             param_in == parameter.in
             next ==
                 IF Supplied(kwargs, param_name)
                 THEN CASE param_in = "path" ->
                              [acc EXCEPT !.path = Put(@, param_name, kwargs[param_name])]
                        [] param_in = "query" ->
                              [acc EXCEPT !.query = Put(@, param_name, kwargs[param_name])]
                        [] param_in = "header" ->
                              [acc EXCEPT !.headers = Put(@, param_name, kwargs[param_name])]
                        [] OTHER -> acc
                 ELSE acc
         IN  RouteParameters(Tail(parameters), kwargs, next)

\* faulty variant of RouteBody: the body entry goes under the sanitized name
RECURSIVE RouteBody_sanitized(_, _, _)
RouteBody_sanitized(properties, kwargs, body) ==
    IF properties = <<>> THEN body
    ELSE LET prop == Head(properties)
         IN  RouteBody_sanitized(Tail(properties), kwargs,
                 IF Supplied(kwargs, prop)
                 THEN Put(body, sanitize_parameter_name(prop), kwargs[prop])
                 ELSE body)

\* the loop over the properties of the requestBody schema
RECURSIVE RouteBody(_, _, _)
RouteBody(properties, kwargs, body) ==
    IF properties = <<>> THEN body
    ELSE LET prop == Head(properties)
         IN  RouteBody(Tail(properties), kwargs,
                       IF Supplied(kwargs, prop) THEN Put(body, prop, kwargs[prop]) ELSE body)

NoRequest == <<>>

Failure(err, found) ==
    [err |-> err, operation |-> found, sent |-> NoRequest, path_params |-> EmptyDict]

\* faulty variant of BaseUrl: an empty base URL when no server is declared
BaseUrl_default(sp) ==
    IF ~sp.servers.declared \/ sp.servers.list = <<>>
    THEN [err |-> "", url |-> <<>>]
    ELSE [err |-> "", url |-> sp.servers.list[1]]

\* self.spec['servers'][0]['url']: [err, url]
BaseUrl(sp) ==
    IF ~sp.servers.declared THEN [err |-> "KeyError: servers", url |-> <<>>]
    ELSE IF sp.servers.list = <<>> THEN [err |-> "IndexError: servers", url |-> <<>>]
    ELSE [err |-> "", url |-> sp.servers.list[1]]

\* faulty variant of BuildBody: the loop runs over kwargs instead of the schema's
\* properties, so every non-null argument lands in the body
BuildBody_everyKwarg(details, kwargs) ==
    CASE details.requestBody = "absent" -> [err |-> "", body |-> get_body]
      [] details.requestBody = "nojson" ->
            [err |-> "KeyError: application/json", body |-> get_body]
      [] details.requestBody = "noproperties" ->
            [err |-> "KeyError: properties", body |-> get_body]
      [] details.requestBody = "json" ->
            [err |-> "",
             body |-> [n \in {m \in DOMAIN kwargs : kwargs[m] # None} |-> kwargs[n]]
                      @@ get_body]

\* operation["details"]['requestBody']['content']['application/json']
\* ['schema']['properties'] and the loop over it: [err, body]
BuildBody(details, kwargs) ==
    CASE details.requestBody = "absent" -> [err |-> "", body |-> get_body]
      [] details.requestBody = "nojson" ->
            [err |-> "KeyError: application/json", body |-> get_body]
      [] details.requestBody = "noproperties" ->
            [err |-> "KeyError: properties", body |-> get_body]
      [] details.requestBody = "json" ->
            [err |-> "", body |-> RouteBody(details.properties, kwargs, get_body)]

\* faulty variant of SubstitutePath: a placeholder without a value is replaced by
\* the empty string (format_map over a defaultdict)
SubstitutePath_lenient(path, path_params) ==
    FormatPath(RemoveQueryExpansion(path),
               [n \in Names |-> IF n \in DOMAIN path_params
                                THEN path_params[n]
                                ELSE [t |-> "str", s |-> <<>>]])

\* re.sub(...) and path.format(**path_params): [err, out]
SubstitutePath(path, path_params) ==
    FormatPath(RemoveQueryExpansion(path), path_params)

\* faulty variant of JsonPayload: `json=body`, which sends {} for an empty mapping
JsonPayload_always(body) == [hasJson |-> TRUE, json |-> body]

\* json=body if body else None
JsonPayload(body) == [hasJson |-> body # EmptyDict, json |-> body]

\* What the API does with a request: it answers with a status code and a
\* body that is JSON or not, or the transport fails (httpx raises).
Response(status_code, content) ==
    [transport |-> "ok", status_code |-> status_code, content |-> content]

Outcomes ==
    { Response(200, "json"),
      Response(404, "json"),
      Response(500, "text"),
      [transport |-> "httpx.ConnectError", status_code |-> 0, content |-> "none"] }

\* faulty variant of Transmit: the request is sent again after a 5xx answer
Transmit_retry(request, outcome) ==
    IF outcome.transport # "ok"
    THEN [err |-> outcome.transport, requests |-> <<request>>, response |-> <<>>]
    ELSE [err |-> "",
          requests |-> IF outcome.status_code >= 500
                       THEN <<request, request>> ELSE <<request>>,
          response |-> <<outcome>>]

\* `with httpx.Client() as client: response = client.request(...)` and
\* `return response`: [err, requests, response]. The request goes out once;
\* a transport failure propagates, any status code is returned as it is.
Transmit(request, outcome) ==
    IF outcome.transport # "ok"
    THEN [err |-> outcome.transport, requests |-> <<request>>, response |-> <<>>]
    ELSE [err |-> "", requests |-> <<request>>, response |-> <<outcome>>]

\* OpenAPIClient.invoke_operation up to the request it hands to httpx:
\* [err, operation, sent, path_params]. operation holds the operation looked
\* up, sent the request built, if any.
BuildRequest(sp, headers0, operation_id, kwargs) ==
    LET found == get_operation_by_id(sp, operation_id)
    IN  IF found.err # "" THEN Failure(found.err, <<>>)
    ELSE
    LET operation == found.operation[1]
        details == operation.details
        routed == RouteParameters(details.parameters, kwargs,
                      [path |-> EmptyDict, query |-> get_query_params,
                       headers |-> get_headers(headers0)])
        built == BuildBody(details, kwargs)
        base_url == BaseUrl(sp)
        formatted == SubstitutePath(operation.path, routed.path)
    IN  IF built.err # "" THEN Failure(built.err, found.operation)
        ELSE IF base_url.err # "" THEN Failure(base_url.err, found.operation)
        ELSE IF formatted.err # ""
        THEN Failure(formatted.err, found.operation)
        ELSE [err |-> "",
              operation |-> found.operation,
              sent |-> << [method |-> upper(operation.method),
                           url |-> base_url.url \o formatted.out,
                           params |-> routed.query,
                           headers |-> routed.headers,
                           hasJson |-> JsonPayload(built.body).hasJson,
                           json |-> JsonPayload(built.body).json] >>,
              path_params |-> routed.path]

\* faulty variant of SpecAfterInvoke: `self.spec['servers'].pop(0)['url']`, which
\* takes the first server out of the document
SpecAfterInvoke_popServer(sp, found) ==
    IF found = <<>> \/ found[1].details.requestBody \in {"nojson", "noproperties"}
       \/ ~sp.servers.declared \/ sp.servers.list = <<>>
    THEN sp
    ELSE [sp EXCEPT !.servers.list = Tail(@)]

\* self.spec when invoke_operation returns or raises: the function reads
\* self.spec and the operation found in it and assigns to neither; the
\* dicts it writes (path_params, query_params, headers, body) are new ones
SpecAfterInvoke(sp, found) == sp

\* lines 190-200 after the request `built` was constructed, or the
\* exception of the construction
SendBuilt(built, sp, outcome) ==
    IF built.err # ""
    THEN [err |-> built.err, operation |-> built.operation, sent |-> NoRequest,
          path_params |-> built.path_params, response |-> <<>>,
          spec |-> SpecAfterInvoke(sp, built.operation)]
    ELSE [err |-> Transmit(built.sent[1], outcome).err,
          operation |-> built.operation,
          sent |-> Transmit(built.sent[1], outcome).requests,
          path_params |-> built.path_params,
          response |-> Transmit(built.sent[1], outcome).response,
          spec |-> SpecAfterInvoke(sp, built.operation)]

\* OpenAPIClient.invoke_operation: [err, operation, sent, path_params,
\* response, spec]. sent holds the requests that went out, response the
\* httpx.Response returned, if any, spec the document the client then holds.
invoke_operation(sp, headers0, operation_id, kwargs, outcome) ==
    SendBuilt(BuildRequest(sp, headers0, operation_id, kwargs), sp, outcome)

----------------------------------------------------------------------------
(* register_openapi_tools *)

SigParam(name, required) == [name |-> name, required |-> required]

\* the loop over path/query/header parameters: [required, optional]
RECURSIVE SignatureOfParameters(_, _)
SignatureOfParameters(parameters, acc) ==
    IF parameters = <<>> THEN acc
    ELSE LET param == Head(parameters)
             param_name == sanitize_parameter_name(param.name)
             next == IF param.required
                     THEN [acc EXCEPT !.required = Append(@, SigParam(param_name, TRUE))]
                     ELSE [acc EXCEPT !.optional = Append(@, SigParam(param_name, FALSE))]
         IN  SignatureOfParameters(Tail(parameters), next)

\* the loop over the requestBody properties: the sanitized name is looked
\* up in the schema's required list
RECURSIVE SignatureOfBody(_, _, _)
SignatureOfBody(properties, required_fields, acc) ==
    IF properties = <<>> THEN acc
    ELSE LET prop_name == sanitize_parameter_name(Head(properties))
             next == IF prop_name \in Range(required_fields)
                     THEN [acc EXCEPT !.required = Append(@, SigParam(prop_name, TRUE))]
                     ELSE [acc EXCEPT !.optional = Append(@, SigParam(prop_name, FALSE))]
         IN  SignatureOfBody(Tail(properties), required_fields, next)

\* faulty variant of ParamDefs: the entries stay in declaration order, required
\* and optional ones mixed
ParamDefs_declared(details) ==
    [i \in DOMAIN details.parameters |->
        SigParam(sanitize_parameter_name(details.parameters[i].name),
                 details.parameters[i].required)]
    \o (IF details.requestBody = "json"
        THEN [i \in DOMAIN details.properties |->
                 SigParam(sanitize_parameter_name(details.properties[i]),
                          sanitize_parameter_name(details.properties[i])
                              \in Range(details.required))]
        ELSE <<>>)

\* param_defs = required_params + optional_params of one operation
ParamDefs(details) ==
    LET fromParameters ==
            SignatureOfParameters(details.parameters, [required |-> <<>>, optional |-> <<>>])
        fromBody ==
            IF details.requestBody = "json"
            THEN SignatureOfBody(details.properties, details.required, fromParameters)
            ELSE fromParameters
    IN  fromBody.required \o fromBody.optional

\* inspect.Signature(parameters=param_defs) raises ValueError on a
\* duplicate parameter name
SignatureError(param_defs) ==
    ~Injective([i \in DOMAIN param_defs |-> param_defs[i].name])

\* register_openapi_tools: [err, registered]; registered holds the
\* add_tool calls made, in order, up to the first exception
RECURSIVE RegisterFrom(_, _)
RegisterFrom(operations, registered) ==
    IF operations = <<>> THEN [err |-> "", registered |-> registered]
    ELSE LET operation == Head(operations)
             details == operation.details
         IN  IF details.kind # "dict"
             THEN [err |-> "TypeError", registered |-> registered]
             ELSE IF SignatureError(ParamDefs(details))
             THEN [err |-> "ValueError: duplicate parameter name",
                   registered |-> registered]
             ELSE RegisterFrom(Tail(operations),
                      Append(registered,
                             [operation_id |-> details.operationId,
                              path |-> operation.path,
                              method |-> operation.method,
                              signature |-> ParamDefs(details)]))

register_openapi_tools(sp) == RegisterFrom(get_operations(sp), <<>>)

\* `try: return response.json() except: return response.text`: the
\* outcome of the invocation with what the tool returns. An exception of
\* invoke_operation propagates; a response is returned as its JSON value, or
\* as its text when it is not JSON.
ToolReturn(invoked) ==
    [err |-> invoked.err, operation |-> invoked.operation, sent |-> invoked.sent,
     path_params |-> invoked.path_params, response |-> invoked.response,
     spec |-> invoked.spec,
     returned |-> IF invoked.err # "" THEN <<>> ELSE <<invoked.response[1].content>>]

\* wrapped_func: the tool passes the arguments of its signature on and
\* returns the body of the response
wrapped_func(sp, headers0, operation_id, kwargs, outcome) ==
    ToolReturn(invoke_operation(sp, headers0, operation_id, kwargs, outcome))

----------------------------------------------------------------------------
(* AuthenticatedOpenAPIClient: the OAuth2 token of get_headers *)

\* concurrent callers, calls they start in all, clock ticks of 30 seconds
NThreads == 2
MaxCalls == 3
MaxTicks == 2

Threads == 1..NThreads

\* `expires_in - 30` and `token_data.get("expires_in", 3600)`
RefreshMargin == 30
DefaultExpiresIn == 3600

N_Authorization ==
    <<"A", "u", "t", "h", "o", "r", "i", "z", "a", "t", "i", "o", "n">>
Bearer == <<"B", "e", "a", "r", "e", "r", " ">>

\* the access token of the k-th token response
TokenNumbers == <<"1", "2", "3", "4", "5", "6", "7", "8", "9">>
Token(k) == [t |-> "str", s |-> <<"t", TokenNumbers[k]>>]

\* What the token endpoint answers: 200 with a token and an expires_in, 200
\* with a token and no expires_in, or 401.
TokenAnswers ==
    { [status_code |-> 200, expires_in |-> <<60>>],
      [status_code |-> 200, expires_in |-> <<>>],
      [status_code |-> 401, expires_in |-> <<>>] }

\* f"Bearer {self.access_token}"
BearerValue(token) == [t |-> "str", s |-> Bearer \o token.s]

\* faulty variant of NeedsToken: `time.time() > self.token_expires_at`
NeedsToken_late(token, expires_at, time) ==
    token = None \/ token.s = <<>> \/ time > expires_at

\* `not self.access_token or time.time() >= self.token_expires_at`
NeedsToken(token, expires_at, time) ==
    token = None \/ token.s = <<>> \/ time >= expires_at

\* `time.time() + expires_in - 30`, expires_in defaulting to 3600
ExpiresAt(time, token_data) ==
    time + (IF token_data.expires_in = <<>> THEN DefaultExpiresIn
            ELSE token_data.expires_in[1]) - RefreshMargin

NoOrigin == [token |-> 0, expiry |-> 0]

IdleThread ==
    [pc |-> "idle", operation_id |-> <<>>, kwargs |-> EmptyDict,
     headers |-> EmptyDict, token_data |-> <<>>, posts |-> 0,
     writes |-> 0, sent |-> NoRequest, response |-> <<>>, err |-> ""]

\* faulty variant of EntryPoint: get_headers() is called before the operation
\* is looked up, so that an unknown operationId is noticed after it
EntryPoint_headersFirst(found, auth, needs) ==
    IF ~auth THEN "request"
    ELSE IF needs THEN "fetch" ELSE "authorize"

\* invoke_operation lines 155-160 and get_headers lines 97-98: where the
\* call goes next. get_operation_by_id raises before get_headers is called;
\* get_headers fetches a token when the credentials are configured and the
\* cached token is missing or due.
EntryPoint(found, auth, needs) ==
    IF found.err # "" THEN "raised"
    ELSE IF ~auth THEN "request"
    ELSE IF needs THEN "fetch" ELSE "authorize"

\* faulty variant of CustomHeadersAfter: `headers = self.custom_headers`
\* without the copy, so that the writes of the call land in custom_headers
CustomHeadersAfter_aliased(custom, headers) == headers

\* self.custom_headers after a call wrote into `headers`: line 94 hands out
\* `self.custom_headers.copy()`, and lines 100 and 174 write into that copy
CustomHeadersAfter(custom, headers) == custom

\* the document of the client whose token is followed: GET /ab
AuthDocument ==
    [servers |-> [declared |-> TRUE, list |-> <<Url1, Url2>>],
     paths |-> << [path |-> Render(T_ab), items |-> <<Entry(K_get, A1)>>] >>]

\* the document of the client one caller uses: GET /ab with the header
\* parameter 2-v
SessionDocument ==
    [servers |-> [declared |-> TRUE, list |-> <<Url1, Url2>>],
     paths |-> << [path |-> Render(T_ab), items |-> <<Entry(K_get, B1)>>] >>]

\* what that caller asks for, and what the API answers
SessionIds == {Id_getAb, Id_op}
SessionKwargs == {EmptyDict, (N_2v :> StrV)}
SessionOutcomes == {Response(200, "json"), Response(401, "json")}

----------------------------------------------------------------------------
(* thingsboard: ThingsboardClient, utils/helpers.py, tools/alarm_rules.py *)

\* the alarm rules a device profile holds at most
MaxAlarms == 2

\* Python values of the ThingsBoard code: None and strings as above, a dict
\* as a function from keys to values, a list as a sequence, and the
\* CallToolResult a tool returns, of which the model keeps what text it is
Str(chars) == [t |-> "str", s |-> chars]
Dict(d) == [t |-> "dict", d |-> d]
List(l) == [t |-> "list", l |-> l]
CallToolResult(text) == [t |-> "CallToolResult", text |-> text]

\* dict.get(key) and dict.get(key, {})
Get(obj, key) == IF key \in DOMAIN obj.d THEN obj.d[key] ELSE None
GetOrEmpty(obj, key) == IF key \in DOMAIN obj.d THEN obj.d[key] ELSE Dict(EmptyDict)

\* `key in obj`: a key of a dict; a CallToolResult is a pydantic model, whose
\* iteration yields (field, value) pairs, none of which equals a string
Contains(obj, key) == obj.t = "dict" /\ key \in DOMAIN obj.d

\* utils.helpers.remove_null_values, lines 11-31
RECURSIVE remove_null_values(_)
remove_null_values(obj) ==
    CASE obj.t = "dict" ->
            LET kept == {k \in DOMAIN obj.d : remove_null_values(obj.d[k]) # None}
            IN  IF kept = {} THEN None
                ELSE Dict([k \in kept |-> remove_null_values(obj.d[k])])
      [] obj.t = "list" ->
            LET cleaned == [i \in DOMAIN obj.l |-> remove_null_values(obj.l[i])]
                kept == SelectSeq(cleaned, LAMBDA item : item # None)
            IN  IF kept = <<>> THEN None ELSE List(kept)
      [] OTHER -> obj

DefaultFields == <<"id", "name", "type", "label", "deviceProfileId", "assetProfileId">>

\* one round of the loop of filter_entity_information, lines 48-63
FilterField(device, field, filtered_device) ==
    CASE field = "id" ->
            Put(Put(filtered_device, "id", Get(GetOrEmpty(device, "id"), "id")),
                "entityType", Get(GetOrEmpty(device, "id"), "entityType"))
      [] field \in {"name", "type", "label"} ->
            Put(filtered_device, field, Get(device, field))
      [] field = "deviceProfileId" ->
            Put(filtered_device, "profileId",
                Get(GetOrEmpty(device, "deviceProfileId"), "id"))
      [] field = "assetProfileId" ->
            Put(filtered_device, "profileId",
                Get(GetOrEmpty(device, "assetProfileId"), "id"))
      [] OTHER ->
            IF field \in DOMAIN device.d
            THEN Put(filtered_device, field, Get(device, field))
            ELSE filtered_device

RECURSIVE FilterFields(_, _, _)
FilterFields(device, fields, filtered_device) ==
    IF fields = <<>> THEN filtered_device
    ELSE FilterFields(device, Tail(fields),
                      FilterField(device, Head(fields), filtered_device))

\* utils.helpers.filter_entity_information; `fields` empty stands for None
filter_entity_information(device, fields) ==
    remove_null_values(Dict(FilterFields(device,
        IF fields = <<>> THEN DefaultFields ELSE fields, EmptyDict)))

\* the entities ThingsBoard lists: devices and assets, with or without a
\* name, a type, a label, a profile and a field of no special meaning
Ref(id, entityType) == Dict(("id" :> Str(id)) @@ ("entityType" :> Str(entityType)))

E_DEVICE == <<"D", "E", "V", "I", "C", "E">>
E_ASSET == <<"A", "S", "S", "E", "T">>

EntityFields ==
    [id : {Ref(<<"d", "1">>, E_DEVICE), Ref(<<"a", "1">>, E_ASSET)},
     name : {<<>>, <<None>>, <<Str(<<"n">>)>>},
     type : {<<>>, <<Str(<<"t">>)>>},
     label : {<<>>, <<None>>, <<Str(<<"l">>)>>},
     hasProfile : BOOLEAN,
     extra : {<<>>, <<Str(<<"e">>)>>}]

IsDevice(f) == f.id.d["entityType"] = Str(E_DEVICE)

ProfileRef(f) ==
    IF IsDevice(f)
    THEN Ref(<<"d", "p">>, E_DEVICE \o <<"_", "P", "R", "O", "F", "I", "L", "E">>)
    ELSE Ref(<<"a", "p">>, E_ASSET \o <<"_", "P", "R", "O", "F", "I", "L", "E">>)

Optional(key, v) == IF v = <<>> THEN EmptyDict ELSE (key :> v[1])

EntityOf(f) ==
    Dict(("id" :> f.id)
         @@ Optional("name", f.name) @@ Optional("type", f.type)
         @@ Optional("label", f.label) @@ Optional("extra", f.extra)
         @@ (IF ~f.hasProfile THEN EmptyDict
             ELSE IF IsDevice(f) THEN ("deviceProfileId" :> ProfileRef(f))
             ELSE ("assetProfileId" :> ProfileRef(f))))

Entities == {EntityOf(f) : f \in EntityFields}

FieldChoices == {<<>>, <<"id", "deviceProfileId">>, <<"name", "extra">>}

\* HTTP methods a caller passes, and those make_thingsboard_request sends
M_PUT == <<"P", "U", "T">>
M_DELETE == <<"D", "E", "L", "E", "T", "E">>
M_PATCH == <<"P", "A", "T", "C", "H">>
SentMethods == {upper(K_get), upper(K_post), M_PUT, M_DELETE}
BodyMethods == {upper(K_post), M_PUT}

\* the requests on the wire: the login of get_auth_token, and an API request
\* with the bearer token of its Authorization header and its JSON body
TbLogin == [kind |-> "login", endpoint |-> "auth/login", method |-> upper(K_post),
            token |-> None, data |-> None]
TbRequest(endpoint, method, token, data) ==
    [kind |-> "api", endpoint |-> endpoint, method |-> upper(method), token |-> token,
     data |-> IF upper(method) \in BodyMethods THEN data ELSE None]

\* what the login endpoint and the API answer
LoginAnswers == {"token", "refused"}
TbOutcomes == Outcomes \cup {Response(401, "json"), Response(200, "text")}

\* the dicts of lines 41, 62 and 64
UnsupportedMethod == Dict(("error" :> Str(<<"Unsupported HTTP method">>)))
ErrorDict(e) ==
    Dict(("error" :> Str(<<"Unable to fetch data from ThingsBoard">>))
         @@ ("details" :> Str(<<e>>)))

\* what a call leaves: the token the class then holds, the tokens issued,
\* the requests sent, and the value returned or the exception raised
TbResult(token, n, log, returned, raised) ==
    [token |-> token, issued |-> n, log |-> log, returned |-> returned, raised |-> raised]

\* ThingsboardClient.get_auth_token, lines 69-86: [err, token, issued, log]
get_auth_token(token, n, answer) ==
    IF answer = "token"
    THEN [err |-> "", token |-> Token(n + 1), issued |-> n + 1, log |-> <<TbLogin>>]
    ELSE [err |-> "ValueError: Error getting token", token |-> token, issued |-> n,
          log |-> <<TbLogin>>]

\* ThingsboardClient.initialize_thingsboard_client, lines 14-15
initialize_thingsboard_client(token, n, answer) ==
    IF token = None
    THEN get_auth_token(token, n, answer)
    ELSE [err |-> "", token |-> token, issued |-> n, log |-> <<>>]

\* client.get/post/put/delete, raise_for_status() and response.json():
\* [exc, status_code, value]
Exchange(outcome, body) ==
    IF outcome.transport # "ok"
    THEN [exc |-> outcome.transport, status_code |-> 0, value |-> <<>>]
    ELSE IF outcome.status_code >= 400
    THEN [exc |-> "httpx.HTTPStatusError", status_code |-> outcome.status_code,
          value |-> <<>>]
    ELSE IF outcome.content # "json"
    THEN [exc |-> "json.JSONDecodeError", status_code |-> outcome.status_code,
          value |-> <<>>]
    ELSE [exc |-> "", status_code |-> outcome.status_code, value |-> <<body>>]

\* json=data: what httpx can encode
Serializable(data) == data.t # "CallToolResult"

\* lines 48-61, inside the handler of httpx.HTTPStatusError: whatever is
\* raised here leaves make_thingsboard_request
Retried(init, log, endpoint, method, data, second, body) ==
    IF init.err # ""
    THEN TbResult(init.token, init.issued, log \o init.log, <<>>, init.err)
    ELSE TbResult(init.token, init.issued,
                  log \o init.log \o <<TbRequest(endpoint, method, init.token, data)>>,
                  Exchange(second, body).value, Exchange(second, body).exc)

\* lines 24-64 with the token the class holds
Attempt(token, n, log, endpoint, method, data, login, first, second, body) ==
    IF upper(method) \notin SentMethods
    THEN TbResult(token, n, log, <<UnsupportedMethod>>, "")
    ELSE IF upper(method) \in BodyMethods /\ ~Serializable(data)
    THEN TbResult(token, n, log, <<ErrorDict("TypeError")>>, "")
    ELSE IF Exchange(first, body).exc = ""
    THEN TbResult(token, n, log \o <<TbRequest(endpoint, method, token, data)>>,
                  Exchange(first, body).value, "")
    ELSE IF Exchange(first, body).exc = "httpx.HTTPStatusError"
            /\ Exchange(first, body).status_code = 401
    THEN Retried(initialize_thingsboard_client(token, n, login),
                 log \o <<TbRequest(endpoint, method, token, data)>>,
                 endpoint, method, data, second, body)
    ELSE TbResult(token, n, log \o <<TbRequest(endpoint, method, token, data)>>,
                  <<ErrorDict(Exchange(first, body).exc)>>, "")

AfterLogin(auth, endpoint, method, data, login, first, second, body) ==
    IF auth.err # ""
    THEN TbResult(auth.token, auth.issued, auth.log, <<>>, auth.err)
    ELSE Attempt(auth.token, auth.issued, auth.log, endpoint, method, data, login,
                 first, second, body)

\* ThingsboardClient.make_thingsboard_request: login, first and second are
\* the answers of the login endpoint and of the API to the request and to
\* its repetition, body the JSON of a successful answer
make_thingsboard_request(token, n, endpoint, method, data, login, first, second, body) ==
    IF token = None
    THEN AfterLogin(get_auth_token(token, n, login), endpoint, method, data, login,
                    first, second, body)
    ELSE Attempt(token, n, <<>>, endpoint, method, data, login, first, second, body)

\* the device profile ThingsBoard returns, with its alarm rules
AlarmIds == {<<"a", "1">>, <<"a", "2">>, <<"a", "3">>}

Alarm(id) ==
    Dict(("id" :> Str(id)) @@ ("alarmType" :> Str(<<"T">> \o id)) @@ ("propagate" :> None))

ProfileJson(alarms) ==
    Dict(("id" :> Ref(<<"p">>, <<"D", "E", "V", "I", "C", "E", "_", "P", "R", "O", "F", "I", "L", "E">>))
         @@ ("name" :> Str(<<"n">>))
         @@ ("profileData" :> Dict(("alarms" :> List(alarms)))))

\* the alarm rules a profile may hold: at most MaxAlarms, of distinct ids
Profiles ==
    {[i \in DOMAIN ids |-> Alarm(ids[i])] :
        ids \in {s \in SeqsUpTo(AlarmIds, MaxAlarms) : Injective(s)}}

\* tools/alarm_rules.py lines 170-215: the text of a profile, line by line
AlarmLines(alarms) ==
    [i \in DOMAIN alarms |->
        IF Contains(alarms[i], "alarmType") THEN alarms[i].d["alarmType"].s
        ELSE <<"Unnamed">>]

ProfileText(cleaned_response) ==
    << IF Contains(cleaned_response, "name") THEN cleaned_response.d["name"].s
       ELSE <<"Unnamed">> >>
    \o (IF Contains(cleaned_response, "profileData")
           /\ Contains(cleaned_response.d["profileData"], "alarms")
        THEN AlarmLines(cleaned_response.d["profileData"].d["alarms"].l)
        ELSE << <<"None configured">> >>)

\* get_device_profile lines 147-224 once make_thingsboard_request returned
\* or raised: a CallToolResult in every case
ProfileResult(r) ==
    TbResult(r.token, r.issued, r.log,
        << IF r.raised # ""
           THEN CallToolResult(<< <<"Error retrieving device profile">> >>)
           ELSE IF remove_null_values(r.returned[1]) = None
           THEN CallToolResult(<< <<"Device profile not found">> >>)
           ELSE CallToolResult(ProfileText(remove_null_values(r.returned[1]))) >>,
        "")

\* tools.alarm_rules.get_device_profile
get_device_profile(token, n, login, first, second, body) ==
    ProfileResult(make_thingsboard_request(token, n, "deviceProfile/p", upper(K_get),
                                           None, login, first, second, body))

\* delete_alarm_rule lines 541-545: the profile without the alarm rule
WithoutAlarm(current_profile, alarm_id) ==
    IF Contains(current_profile, "profileData")
       /\ Contains(current_profile.d["profileData"], "alarms")
    THEN Dict(Put(current_profile.d, "profileData",
              Dict(Put(current_profile.d["profileData"].d, "alarms",
                   List(SelectSeq(current_profile.d["profileData"].d["alarms"].l,
                                  LAMBDA alarm : Get(alarm, "id") # Str(alarm_id)))))))
    ELSE current_profile

\* both requests of a tool: the log of the second follows that of the first
Following(got, posted) ==
    TbResult(posted.token, posted.issued, got.log \o posted.log, posted.returned,
             posted.raised)

\* delete_alarm_rule lines 537-549 once get_device_profile returned
Deleted(got, alarm_id, login, first, second) ==
    IF Contains(got.returned[1], "error")
    THEN got
    ELSE Following(got,
            make_thingsboard_request(got.token, got.issued, "deviceProfile", upper(K_post),
                WithoutAlarm(got.returned[1], alarm_id), login, first, second,
                WithoutAlarm(got.returned[1], alarm_id)))

\* tools.alarm_rules.delete_alarm_rule: the answers are those to the GET of
\* the profile; the POST that follows is answered 200
delete_alarm_rule(token, n, alarm_id, login, first, second, body) ==
    Deleted(get_device_profile(token, n, login, first, second, body), alarm_id,
            login, Response(200, "json"), Response(200, "json"))

\* a client that has not logged in, a profile without alarm rules, no call
NoTb ==
    [name |-> "none", method |-> <<>>, data |-> None, alarm_id |-> <<>>,
     device |-> None, fields |-> <<>>, login |-> "", first |-> <<>>,
     second |-> <<>>, fetched |-> <<>>, token |-> None, log |-> <<>>, returned |-> <<>>, raised |-> ""]

NoThingsboard ==
    /\ _auth_token = None
    /\ issued = 0
    /\ profile = <<>>
    /\ tb = NoTb

----------------------------------------------------------------------------
(* The state machine *)

NoCall == [name |-> "none", operation_id |-> <<>>, kwargs |-> EmptyDict, tool |-> 0]
NoResult ==
    [err |-> "", operations |-> <<>>, operation |-> <<>>, path_params |-> EmptyDict,
     response |-> <<>>, returned |-> <<>>]
NotRegistered == [done |-> FALSE, err |-> "", registered |-> <<>>]

\* keyword arguments of a direct call: at most MaxArgs of the names
KwargsChoices ==
    UNION {[D -> Values] : D \in {X \in SUBSET Names : Cardinality(X) <= MaxArgs}}

\* operationIds a caller asks for: written ones, synthesized ones, unknown
Id_getA  == <<"g", "e", "t", "A">>
Id_postAb == <<"p", "o", "s", "t", "A", "b">>
Id_postA == <<"p", "o", "s", "t", "A">>
Id_ext   == <<"x", "-", "e", "A", "b">>
IdChoices == {Id_getAb, Id_getab, Id_op, Id_getA, Id_postAb, Id_postA, Id_ext}

\* operationIds invoke_operation is called with: those the document carries
\* and Id_getab, which differs from Id_getAb by case alone
CallerIds(sp) ==
    LET all == Flatten(sp.paths)
    IN  {all[i].details.operationId :
            i \in {j \in DOMAIN all : all[j].details.kind = "dict"
                                      /\ all[j].details.hasOperationId}}
        \cup {Id_getab}

\* a client without OAuth2 credentials and no concurrent caller
NoAuth ==
    /\ oauth2 = FALSE
    /\ access_token = None
    /\ token_expires_at = 0
    /\ origin = NoOrigin
    /\ now = 0
    /\ served = 0
    /\ calls = 0
    /\ threads = [t \in Threads |-> IdleThread]

Init ==
    /\ spec \in Documents
    /\ custom_headers \in HeaderChoices
    /\ phase = "new"
    /\ pc = "idle"
    /\ call = NoCall
    /\ result = NoResult
    /\ requests = <<>>
    /\ tools = NotRegistered
    /\ NoAuth
    /\ NoThingsboard

\* OpenAPIClient(openapi_spec)
Construct ==
    /\ phase = "new"
    /\ LET built == OpenAPIClient(spec)
       IN  /\ phase' = IF built.err = "" THEN "ready" ELSE "failed"
           /\ spec' = built.spec
    /\ UNCHANGED <<custom_headers, pc, call, result, requests, tools>>
    /\ UNCHANGED <<authVars, tbVars>>

\* register_openapi_tools(client, mcp_server), once, as main() does
Register ==
    /\ phase = "ready"
    /\ pc = "idle"
    /\ ~tools.done
    /\ LET r == register_openapi_tools(spec)
       IN  tools' = [done |-> TRUE, err |-> r.err, registered |-> r.registered]
    /\ UNCHANGED <<spec, custom_headers, phase, pc, call, result, requests>>
    /\ UNCHANGED <<authVars, tbVars>>

GetOperations ==
    /\ phase = "ready"
    /\ pc = "idle"
    /\ pc' = "done"
    /\ call' = [NoCall EXCEPT !.name = "get_operations"]
    /\ result' = [NoResult EXCEPT !.operations = get_operations(spec)]
    /\ UNCHANGED <<spec, custom_headers, phase, requests, tools>>
    /\ UNCHANGED <<authVars, tbVars>>

GetOperationById(operation_id) ==
    /\ phase = "ready"
    /\ pc = "idle"
    /\ pc' = "done"
    /\ call' = [NoCall EXCEPT !.name = "get_operation_by_id", !.operation_id = operation_id]
    /\ LET r == get_operation_by_id(spec, operation_id)
       IN  result' = [NoResult EXCEPT !.err = r.err, !.operation = r.operation]
    /\ UNCHANGED <<spec, custom_headers, phase, requests, tools>>
    /\ UNCHANGED <<authVars, tbVars>>

\* what a call leaves behind: its result, the requests it sent, the spec
Outcome(r) ==
    /\ result' = [NoResult EXCEPT
                      !.err = r.err, !.operation = r.operation,
                      !.path_params = r.path_params, !.response = r.response,
                      !.returned = IF "returned" \in DOMAIN r THEN r.returned ELSE <<>>]
    /\ requests' = r.sent
    /\ spec' = r.spec

InvokeOperation(operation_id, kwargs, outcome) ==
    /\ phase = "ready"
    /\ pc = "idle"
    /\ pc' = "done"
    /\ call' = [NoCall EXCEPT !.name = "invoke_operation",
                              !.operation_id = operation_id, !.kwargs = kwargs]
    /\ Outcome(invoke_operation(spec, custom_headers, operation_id, kwargs, outcome))
    /\ UNCHANGED <<custom_headers, phase, tools>>
    /\ UNCHANGED <<authVars, tbVars>>

\* what the MCP server passes to a tool: a value for each argument of the
\* signature, None only for an optional one
ToolKwargs(tool) ==
    LET names == {tool.signature[i].name : i \in DOMAIN tool.signature}
        required == {tool.signature[i].name :
                        i \in {j \in DOMAIN tool.signature : tool.signature[j].required}}
    IN  {kw \in [names -> Values] : \A n \in required : kw[n] # None}

CallTool(i, kwargs, outcome) ==
    /\ phase = "ready"
    /\ pc = "idle"
    /\ tools.done
    /\ tools.err = ""
    /\ pc' = "done"
    /\ call' = [name |-> "tool", operation_id |-> tools.registered[i].operation_id,
                kwargs |-> kwargs, tool |-> i]
    /\ Outcome(wrapped_func(spec, custom_headers, tools.registered[i].operation_id,
                            kwargs, outcome))
    /\ UNCHANGED <<custom_headers, phase, tools>>
    /\ UNCHANGED <<authVars, tbVars>>

\* the call returns to its caller
Return ==
    /\ pc = "done"
    /\ pc' = "idle"
    /\ call' = NoCall
    /\ result' = NoResult
    /\ requests' = <<>>
    /\ UNCHANGED <<spec, custom_headers, phase, tools>>
    /\ UNCHANGED <<authVars, tbVars>>

Next ==
    \/ Construct
    \/ Register
    \/ GetOperations
    \/ \E operation_id \in IdChoices : GetOperationById(operation_id)
    \/ \E operation_id \in CallerIds(spec), kwargs \in KwargsChoices, outcome \in Outcomes :
           InvokeOperation(operation_id, kwargs, outcome)
    \/ \E i \in DOMAIN tools.registered :
           \E kwargs \in ToolKwargs(tools.registered[i]), outcome \in Outcomes :
               CallTool(i, kwargs, outcome)
    \/ Return

Spec == Init /\ [][Next]_vars

\* Signature synthesis on its own: a client is constructed on a document of
\* one operation and its tools are registered.
InitSignature ==
    /\ spec \in SignatureDocuments
    /\ custom_headers = <<>>
    /\ phase = "new"
    /\ pc = "idle"
    /\ call = NoCall
    /\ result = NoResult
    /\ requests = <<>>
    /\ tools = NotRegistered
    /\ NoAuth
    /\ NoThingsboard

NextSignature == Construct \/ Register

SpecSignature == InitSignature /\ [][NextSignature]_vars

\* Concurrent invoke_operation calls on one AuthenticatedOpenAPIClient,
\* each followed through the get_headers() call of its line 160 statement
\* by statement.
InitAuth ==
    /\ spec = OpenAPIClient(AuthDocument).spec
    /\ custom_headers = <<>>
    /\ phase = "ready"
    /\ pc = "idle"
    /\ call = NoCall
    /\ result = NoResult
    /\ requests = <<>>
    /\ tools = NotRegistered
    /\ oauth2 \in BOOLEAN
    /\ access_token = None
    /\ token_expires_at = 0
    /\ origin = NoOrigin
    /\ now = 0
    /\ served = 0
    /\ calls = 0
    /\ threads = [t \in Threads |-> IdleThread]
    /\ NoThingsboard

\* invoke_operation lines 155-160 and get_headers lines 94-98: the
\* operation is looked up, custom_headers is copied and the cached token is
\* tested
Started(t, operation_id, kwargs, found, entry) ==
    threads' = [threads EXCEPT ![t] =
        [IdleThread EXCEPT
            !.operation_id = operation_id,
            !.kwargs = kwargs,
            !.headers = IF entry = "raised" THEN EmptyDict ELSE custom_headers,
            !.err = IF entry = "raised" THEN found.err ELSE "",
            !.pc = entry]]

StartCall(t, operation_id, kwargs) ==
    /\ threads[t].pc = "idle"
    /\ calls < MaxCalls
    /\ calls' = calls + 1
    /\ Started(t, operation_id, kwargs, get_operation_by_id(spec, operation_id),
               EntryPoint(get_operation_by_id(spec, operation_id), oauth2,
                          NeedsToken(access_token, token_expires_at, now)))
    /\ UNCHANGED <<oauth2, access_token, token_expires_at, origin, now, served>>
    /\ UNCHANGED <<clientVars, tbVars>>

\* _fetch_oauth2_token lines 65-78: httpx.post to the token URL
PostToken(t) ==
    /\ threads[t].pc = "fetch"
    /\ threads' = [threads EXCEPT ![t].pc = "await", ![t].posts = @ + 1]
    /\ UNCHANGED <<oauth2, access_token, token_expires_at, origin, now, served, calls>>
    /\ UNCHANGED <<clientVars, tbVars>>

\* lines 79-80 (and 85-86): the answer arrives; raise_for_status() turns a
\* 401 into the ValueError of line 86
TokenResponse(t, answer) ==
    /\ threads[t].pc = "await"
    /\ IF answer.status_code = 200
       THEN /\ served' = served + 1
            /\ threads' = [threads EXCEPT
                    ![t].pc = "store_token",
                    ![t].token_data = << [id |-> served + 1,
                                          access_token |-> Token(served + 1),
                                          expires_in |-> answer.expires_in] >>]
       ELSE /\ served' = served
            /\ threads' = [threads EXCEPT
                    ![t].pc = "raised",
                    ![t].err = "ValueError: Error fetching OAuth2 token"]
    /\ UNCHANGED <<oauth2, access_token, token_expires_at, origin, now, calls>>
    /\ UNCHANGED <<clientVars, tbVars>>

\* line 81: self.access_token = token_data.get("access_token")
StoreToken(t) ==
    /\ threads[t].pc = "store_token"
    /\ access_token' = threads[t].token_data[1].access_token
    /\ origin' = [origin EXCEPT !.token = threads[t].token_data[1].id]
    /\ threads' = [threads EXCEPT ![t].pc = "store_expiry", ![t].writes = @ + 1]
    /\ UNCHANGED <<oauth2, token_expires_at, now, served, calls>>
    /\ UNCHANGED <<clientVars, tbVars>>

\* lines 82-83: self.token_expires_at = time.time() + expires_in - 30
StoreExpiry(t) ==
    /\ threads[t].pc = "store_expiry"
    /\ token_expires_at' = ExpiresAt(now, threads[t].token_data[1])
    /\ origin' = [origin EXCEPT !.expiry = threads[t].token_data[1].id]
    /\ threads' = [threads EXCEPT ![t].pc = "authorize", ![t].writes = @ + 1]
    /\ UNCHANGED <<oauth2, access_token, now, served, calls>>
    /\ UNCHANGED <<clientVars, tbVars>>

\* lines 100-102: headers["Authorization"] = f"Bearer {self.access_token}"
Authorize(t) ==
    /\ threads[t].pc = "authorize"
    /\ threads' = [threads EXCEPT
            ![t].pc = "request",
            ![t].headers = Put(@, N_Authorization, BearerValue(access_token))]
    /\ custom_headers' = CustomHeadersAfter(custom_headers, threads'[t].headers)
    /\ UNCHANGED <<oauth2, access_token, token_expires_at, origin, now, served, calls>>
    /\ UNCHANGED <<spec, phase, pc, call, result, requests, tools>>
    /\ UNCHANGED tbVars

Requested(t, r) ==
    /\ threads' = [threads EXCEPT ![t].pc = "returned", ![t].sent = r.sent,
                                  ![t].response = r.response, ![t].err = r.err]
    /\ spec' = r.spec
    /\ custom_headers' = CustomHeadersAfter(custom_headers,
            IF r.sent = NoRequest THEN threads[t].headers ELSE r.sent[1].headers)

\* invoke_operation from line 161 on, with the headers get_headers returned
Request(t, outcome) ==
    /\ threads[t].pc = "request"
    /\ Requested(t, invoke_operation(spec, threads[t].headers, threads[t].operation_id,
                                     threads[t].kwargs, outcome))
    /\ UNCHANGED <<phase, pc, call, result, requests, tools>>
    /\ UNCHANGED tbVars
    /\ UNCHANGED <<oauth2, access_token, token_expires_at, origin, now, served, calls>>

\* the call returns or raises to its caller
Finish(t) ==
    /\ threads[t].pc \in {"returned", "raised"}
    /\ threads' = [threads EXCEPT ![t] = IdleThread]
    /\ UNCHANGED <<oauth2, access_token, token_expires_at, origin, now, served, calls>>
    /\ UNCHANGED <<clientVars, tbVars>>

\* time passes
Tick ==
    /\ now < MaxTicks * 30
    /\ now' = now + 30
    /\ UNCHANGED <<oauth2, access_token, token_expires_at, origin, served, calls, threads>>
    /\ UNCHANGED <<clientVars, tbVars>>

NextAuth ==
    \/ \E t \in Threads : StartCall(t, Id_getAb, EmptyDict)
    \/ \E t \in Threads : PostToken(t)
    \/ \E t \in Threads, answer \in TokenAnswers : TokenResponse(t, answer)
    \/ \E t \in Threads : StoreToken(t)
    \/ \E t \in Threads : StoreExpiry(t)
    \/ \E t \in Threads : Authorize(t)
    \/ \E t \in Threads : Request(t, Response(200, "json"))
    \/ \E t \in Threads : Finish(t)
    \/ Tick

SpecAuth == InitAuth /\ [][NextAuth]_vars

\* One caller's invoke_operation calls on an AuthenticatedOpenAPIClient, one
\* after the other, with or without OAuth2 credentials and custom headers.
Caller == 1

InitSession ==
    /\ spec = OpenAPIClient(SessionDocument).spec
    /\ custom_headers \in HeaderChoices
    /\ phase = "ready"
    /\ pc = "idle"
    /\ call = NoCall
    /\ result = NoResult
    /\ requests = <<>>
    /\ tools = NotRegistered
    /\ oauth2 \in BOOLEAN
    /\ access_token = None
    /\ token_expires_at = 0
    /\ origin = NoOrigin
    /\ now = 0
    /\ served = 0
    /\ calls = 0
    /\ threads = [t \in Threads |-> IdleThread]
    /\ NoThingsboard

NextSession ==
    \/ \E operation_id \in SessionIds, kwargs \in SessionKwargs :
            StartCall(Caller, operation_id, kwargs)
    \/ PostToken(Caller)
    \/ \E answer \in TokenAnswers : TokenResponse(Caller, answer)
    \/ StoreToken(Caller)
    \/ StoreExpiry(Caller)
    \/ Authorize(Caller)
    \/ \E outcome \in SessionOutcomes : Request(Caller, outcome)
    \/ Finish(Caller)
    \/ Tick

SpecSession == InitSession /\ [][NextSession]_vars

\* Calls into the ThingsBoard server code, one after the other: the
\* client's make_thingsboard_request, the tools get_device_profile and
\* delete_alarm_rule, and filter_entity_information.
InitThingsboard ==
    /\ spec = OpenAPIClient(AuthDocument).spec
    /\ custom_headers = <<>>
    /\ phase = "ready"
    /\ pc = "idle"
    /\ call = NoCall
    /\ result = NoResult
    /\ requests = <<>>
    /\ tools = NotRegistered
    /\ NoAuth
    /\ _auth_token = None
    /\ issued = 0
    /\ profile \in Profiles
    /\ tb = NoTb

TbMethods == {K_get, upper(K_post), M_PATCH}
TbData == {None, ProfileJson(<<>>), CallToolResult(<< <<"n">> >>)}

\* the JSON of a successful answer: the profile held, or the one stored
ServerBody(method, data) ==
    IF upper(method) \in BodyMethods THEN data ELSE ProfileJson(profile)

\* the answer to the last API request of a call
LastAnswer(log, first, second) ==
    IF Len(SelectSeq(log, LAMBDA q : q.kind = "api")) = 1 THEN first ELSE second

\* the profile ThingsBoard holds after a call: a POST of a profile that it
\* answered 200 replaces it
ProfileAfter(log, first, second) ==
    IF /\ log # <<>>
       /\ log[Len(log)].kind = "api"
       /\ log[Len(log)].method = upper(K_post)
       /\ log[Len(log)].data.t = "dict"
       /\ Contains(log[Len(log)].data, "profileData")
       /\ LastAnswer(log, first, second).transport = "ok"
       /\ LastAnswer(log, first, second).status_code = 200
    THEN log[Len(log)].data.d["profileData"].d["alarms"].l
    ELSE profile

\* what a call leaves behind
Left(called, r) ==
    /\ tb' = [called EXCEPT !.token = _auth_token, !.log = r.log,
                            !.returned = r.returned, !.raised = r.raised]
    /\ _auth_token' = r.token
    /\ issued' = r.issued

MakeThingsboardRequest(method, data, login, first, second) ==
    /\ tb.name = "none"
    /\ Left([NoTb EXCEPT !.name = "make_thingsboard_request", !.method = method,
                         !.data = data, !.login = login, !.first = <<first>>,
                         !.second = <<second>>],
            make_thingsboard_request(_auth_token, issued, "deviceProfile", method, data,
                                     login, first, second, ServerBody(method, data)))
    /\ profile' = ProfileAfter(tb'.log, first, second)
    /\ UNCHANGED <<clientVars, authVars>>

GetDeviceProfile(login, first, second) ==
    /\ tb.name = "none"
    /\ Left([NoTb EXCEPT !.name = "get_device_profile", !.login = login,
                         !.first = <<first>>, !.second = <<second>>,
                         !.fetched = profile],
            get_device_profile(_auth_token, issued, login, first, second,
                               ProfileJson(profile)))
    /\ UNCHANGED <<profile, clientVars, authVars>>

DeleteAlarmRule(alarm_id, login, first, second) ==
    /\ tb.name = "none"
    /\ Left([NoTb EXCEPT !.name = "delete_alarm_rule", !.alarm_id = alarm_id,
                         !.login = login, !.first = <<first>>, !.second = <<second>>,
                         !.fetched = profile],
            delete_alarm_rule(_auth_token, issued, alarm_id, login, first, second,
                              ProfileJson(profile)))
    /\ profile' = ProfileAfter(tb'.log, Response(200, "json"), Response(200, "json"))
    /\ UNCHANGED <<clientVars, authVars>>

FilterEntityInformation(device, fields) ==
    /\ tb.name = "none"
    /\ tb' = [NoTb EXCEPT !.name = "filter_entity_information", !.device = device,
                          !.fields = fields,
                          !.returned = <<filter_entity_information(device, fields)>>]
    /\ UNCHANGED <<_auth_token, issued, profile, clientVars, authVars>>

\* the call returns to its caller
TbReturn ==
    /\ tb.name # "none"
    /\ tb' = NoTb
    /\ UNCHANGED <<_auth_token, issued, profile, clientVars, authVars>>

NextThingsboard ==
    \/ \E method \in TbMethods, data \in TbData, login \in LoginAnswers,
          first \in TbOutcomes, second \in TbOutcomes :
            MakeThingsboardRequest(method, data, login, first, second)
    \/ \E login \in LoginAnswers, first \in TbOutcomes, second \in TbOutcomes :
            GetDeviceProfile(login, first, second)
    \/ \E alarm_id \in AlarmIds, login \in LoginAnswers,
          first \in TbOutcomes, second \in TbOutcomes :
            DeleteAlarmRule(alarm_id, login, first, second)
    \/ \E device \in Entities, fields \in FieldChoices :
            FilterEntityInformation(device, fields)
    \/ TbReturn

SpecThingsboard == InitThingsboard /\ [][NextThingsboard]_vars

----------------------------------------------------------------------------
(* Claims *)

\* the (path, method) operations of a document, in document order
OperationsOf(sp) == SelectSeq(Flatten(sp.paths), IsOperationEntry)

Returned == pc = "done"
Invoked == Returned /\ call.name \in {"invoke_operation", "tool"}
Sent == Invoked /\ requests # <<>>

\* C1: once the client is constructed, every operation has a non-empty
\* operationId and no two distinct (path, method) pairs share an
\* operationId, synthesized ids included.
C1_UniqueOperationIds ==
    phase = "ready" =>
        LET ops == OperationsOf(spec)
        IN  /\ \A i \in DOMAIN ops :
                  ops[i].details.hasOperationId /\ ops[i].details.operationId # <<>>
            /\ \A i, j \in DOMAIN ops :
                  ops[i].details.operationId = ops[j].details.operationId => i = j

\* C2: get_operation_by_id(op.details.operationId) returns op itself (same
\* path, method and details) for every op that get_operations() returns.
C2_RoundTrip ==
    (Returned /\ call.name = "get_operation_by_id") =>
        \A op \in Range(get_operations(spec)) :
            (op.details.kind = "dict" /\ op.details.operationId = call.operation_id)
                => result.operation = <<op>>

\* the operation an invocation looked up, and the request it sent
Op == result.operation[1]
Req == requests[1]

\* kwargs holds a non-null value under `name`
Given(name) == name \in DOMAIN call.kwargs /\ call.kwargs[name].t # "none"

RoutedLocations == {"path", "query", "header"}

\* the part of the request a parameter location names, and what the
\* providers seed it with
PartOf(location) ==
    CASE location = "path"   -> result.path_params
      [] location = "query"  -> Req.params
      [] location = "header" -> Req.headers

SeedOf(location) ==
    CASE location = "path"   -> EmptyDict
      [] location = "query"  -> get_query_params
      [] location = "header" -> get_headers(custom_headers)

\* the value given for `name` sits under `name` in the part of `location`
Placed(name, location) ==
    /\ location \in RoutedLocations
    /\ name \in DOMAIN PartOf(location)
    /\ name \in DOMAIN call.kwargs
    /\ PartOf(location)[name] = call.kwargs[name]

\* the part holds under `name` what its provider seeded, and nothing else
AsSeeded(name, location) ==
    IF name \in DOMAIN SeedOf(location)
    THEN name \in DOMAIN PartOf(location) /\ PartOf(location)[name] = SeedOf(location)[name]
    ELSE name \notin DOMAIN PartOf(location)

\* no part of the request holds anything for `name` beyond a provider's seed
InNoPart(name) ==
    /\ \A location \in RoutedLocations : AsSeeded(name, location)
    /\ name \in DOMAIN Req.json => (name \in DOMAIN get_body /\ Req.json[name] = get_body[name])

\* C3 as written: every declared parameter is placed in the part of its
\* declared location if and only if kwargs holds a non-null value under its
\* name; an absent or null parameter is in no part of the request.
C3_RoutedIffSupplied ==
    Sent =>
        \A p \in Range(Op.details.parameters) :
            IF Given(p.name)
            THEN Placed(p.name, p.in)
            ELSE InNoPart(p.name)

\* C3 (amended): a parameter declared in path, query or header is placed in
\* the part of its location if and only if kwargs holds a non-null value
\* under its name, falsy values included; absent or null it is in no part of
\* the request. A parameter declared in cookie is placed nowhere (unless its
\* name is also declared in another location or as a requestBody property).
C3_RoutedIffSuppliedExceptCookie ==
    Sent =>
        \A p \in Range(Op.details.parameters) :
            IF p.in \in RoutedLocations
            THEN IF Given(p.name)
                 THEN Placed(p.name, p.in)
                 ELSE InNoPart(p.name)
            ELSE (/\ \A q \in Range(Op.details.parameters) : q.name = p.name => q.in = p.in
                  /\ p.name \notin Range(Op.details.properties))
                     => InNoPart(p.name)

C3_Witness ==
    /\ Sent
    /\ \E p \in Range(Op.details.parameters) :
          p.in = "query" /\ Given(p.name) /\ call.kwargs[p.name] = Zero
    /\ \E p \in Range(Op.details.parameters) :
          p.in = "cookie" /\ Given(p.name)

\* C4: a value passed to a tool under the sanitized argument name of its
\* signature reaches the request under the original name of the parameter
\* or requestBody property; sanitization drops no supplied value.
C4_SanitizedNameRoundTrip ==
    (Sent /\ call.name = "tool") =>
        /\ \A p \in Range(Op.details.parameters) :
              LET arg == sanitize_parameter_name(p.name)
              IN  (p.in \in RoutedLocations /\ Given(arg)) =>
                      /\ p.name \in DOMAIN PartOf(p.in)
                      /\ PartOf(p.in)[p.name] = call.kwargs[arg]
        /\ \A prop \in Range(Op.details.properties) :
              LET arg == sanitize_parameter_name(prop)
              IN  Given(arg) =>
                      /\ prop \in DOMAIN Req.json
                      /\ Req.json[prop] = call.kwargs[arg]

\* the body the claim describes: the seeded entries, and an entry under the
\* original name for each schema property with a non-null value in kwargs
GivenProperties == {prop \in Range(Op.details.properties) : Given(prop)}

ExpectedBody ==
    [n \in DOMAIN get_body \cup GivenProperties |->
        IF n \in GivenProperties THEN call.kwargs[n] ELSE get_body[n]]

\* C5: for an operation with a requestBody JSON schema, the body of the
\* request holds exactly the seeded entries plus one entry, under the
\* original property name, per schema property with a non-null value in
\* kwargs.
C5_BodyFromSchemaProperties ==
    (Sent /\ Op.details.requestBody = "json") => Req.json = ExpectedBody

C5_Witness ==
    /\ Sent
    /\ Op.details.requestBody = "json"
    /\ N_2v \in DOMAIN Req.json
    /\ \E prop \in Range(Op.details.properties) : prop \notin DOMAIN Req.json

\* the template a path was written from, and its placeholders
TemplateOf(path) == CHOOSE t \in Templates : Render(t) = path

Placeholders(t) == {t[i].text : i \in {j \in DOMAIN t : t[j].seg = "var"}}

\* the path the claim describes: literal text kept, each {name} replaced by
\* the value given for name, each {?...} fragment left out
ExpectedSegment(g) ==
    CASE g.seg = "lit"  -> g.text
      [] g.seg = "var"  -> call.kwargs[g.text].s
      [] g.seg = "qexp" -> <<>>

ExpectedPath(t) == Concat([i \in DOMAIN t |-> ExpectedSegment(t[i])])

Found == Invoked /\ result.operation # <<>>
ServersUsable == spec.servers.declared /\ spec.servers.list # <<>>
BodyShapeUsable == Op.details.requestBody \in {"absent", "json"}

\* C6: when a value is supplied for every path placeholder, the request URL
\* is servers[0].url followed by the path template with every {name}
\* replaced by the value and every {?...} fragment removed.
C6_RequestUrl ==
    (/\ Found
     /\ ServersUsable
     /\ BodyShapeUsable
     /\ \A name \in Placeholders(TemplateOf(Op.path)) : Given(name))
        => /\ Sent
           /\ Req.url = spec.servers.list[1] \o ExpectedPath(TemplateOf(Op.path))

C6_Witness ==
    /\ Sent
    /\ Op.path = Render(T_x)
    /\ Req.url = Url1 \o <<"/", "a", "/", "0">>

\* a non-null value was routed from kwargs to the path placeholder `name`
RoutedToPath(name) ==
    /\ Given(name)
    /\ \E p \in Range(Op.details.parameters) : p.name = name /\ p.in = "path"

\* C7: when the path template has a {name} placeholder to which no non-null
\* value was routed, invoke_operation raises (the KeyError of the missing
\* path parameter once the body and the base URL were built) and sends no
\* request.
C7_MissingPathParameter ==
    (Found /\ \E name \in Placeholders(TemplateOf(Op.path)) : ~RoutedToPath(name))
        => /\ result.err # ""
           /\ requests = <<>>
           /\ (ServersUsable /\ BodyShapeUsable) => result.err = "KeyError: path parameter"

C7_Witness ==
    /\ Found
    /\ N_x \in DOMAIN call.kwargs
    /\ call.kwargs[N_x] = None
    /\ result.err = "KeyError: path parameter"
    /\ requests = <<>>

\* C8: when the document declares no servers (no `servers` key, or an empty
\* list), invoke_operation raises (on the servers lookup once the operation
\* was found and its body built) and sends no request.
C8_NoServers ==
    (Invoked /\ ~ServersUsable)
        => /\ result.err # ""
           /\ requests = <<>>
           /\ (Found /\ BodyShapeUsable)
                 => result.err = IF spec.servers.declared
                                 THEN "IndexError: servers"
                                 ELSE "KeyError: servers"

C8_Witness ==
    /\ Found
    /\ ~spec.servers.declared
    /\ \A name \in Placeholders(TemplateOf(Op.path)) : RoutedToPath(name)
    /\ result.err = "KeyError: servers"
    /\ requests = <<>>

\* the entries of the document that carry the operationId `id`
Carrying(id) ==
    {e \in Range(Flatten(spec.paths)) :
        e.details.kind = "dict" /\ e.details.hasOperationId /\ e.details.operationId = id}

\* C9: get_operation_by_id(id) returns an operation only if that operation's
\* operationId is exactly id, and raises operation-not-found when no
\* operation carries id.
C9_ExactLookup ==
    (Returned /\ call.name = "get_operation_by_id")
        => /\ result.err = "" =>
                  /\ Len(result.operation) = 1
                  /\ result.operation[1] \in Carrying(call.operation_id)
           /\ Carrying(call.operation_id) = {} =>
                  /\ result.err = "ValueError: operation not found"
                  /\ result.operation = <<>>

C9_Witness ==
    /\ Returned
    /\ call.name = "get_operation_by_id"
    /\ call.operation_id = Id_getab
    /\ Carrying(Id_getAb) # {}
    /\ result.err = "ValueError: operation not found"

\* the (path, method) pairs of a sequence of entries
PathMethods(entries) ==
    [i \in DOMAIN entries |-> [path |-> entries[i].path, method |-> entries[i].method]]

\* C10: get_operations() returns one entry per (path, HTTP method) operation
\* and nothing else, in document order, and the tools are registered in that
\* order.
C10_OperationsInDocumentOrder ==
    /\ (Returned /\ call.name = "get_operations")
          => result.operations = OperationsOf(spec)
    /\ (tools.done /\ tools.err = "")
          => PathMethods(tools.registered) = PathMethods(OperationsOf(spec))

\* the names of the parameters declared in `location` that kwargs holds a
\* non-null value for
GivenIn(location) ==
    {p.name : p \in {q \in Range(Op.details.parameters) : q.in = location /\ Given(q.name)}}

\* a provider's mapping with the per-call values of `names` laid over it
Overlaid(seed, names) ==
    [n \in DOMAIN seed \cup names |-> IF n \in names THEN call.kwargs[n] ELSE seed[n]]

\* C11: the headers, the query and the body of a request are the mappings
\* of get_headers(), get_query_params() and get_body() with the values
\* routed from kwargs laid over them: under a key that a provider seeded and
\* kwargs routes to as well, the per-call value is the one sent.
C11_ProviderSeedsOverridden ==
    Sent =>
        /\ Req.headers = Overlaid(get_headers(custom_headers), GivenIn("header"))
        /\ Req.params = Overlaid(get_query_params, GivenIn("query"))
        /\ Req.json = Overlaid(get_body,
                               IF Op.details.requestBody = "json"
                               THEN GivenProperties ELSE {})

C11_Witness ==
    /\ Sent
    /\ N_2v \in DOMAIN custom_headers
    /\ N_2v \in GivenIn("header")
    /\ call.kwargs[N_2v] # custom_headers[N_2v]
    /\ Req.headers[N_2v] = call.kwargs[N_2v]

\* `name` is neither a declared parameter of the operation looked up nor a
\* property of its requestBody schema
Undeclared(name) ==
    /\ \A p \in Range(Op.details.parameters) : p.name # name
    /\ name \notin Range(Op.details.properties)

Without(kwargs, name) == [n \in DOMAIN kwargs \ {name} |-> kwargs[n]]

\* C12: a kwargs entry whose name is neither a declared parameter nor a
\* requestBody property is ignored: the invocation fails before sending
\* exactly when it does without the entry, with the same exception, and
\* otherwise sends the request (URL, query, headers, body) it builds without
\* the entry.
C12_UndeclaredKwargsIgnored ==
    Found =>
        \A name \in DOMAIN call.kwargs :
            Undeclared(name) =>
                LET alone == BuildRequest(spec, custom_headers, call.operation_id,
                                          Without(call.kwargs, name))
                IN  IF alone.err # ""
                    THEN requests = <<>> /\ result.err = alone.err
                    ELSE requests = alone.sent

C12_Witness ==
    /\ Sent
    /\ Op.details.requestBody = "json"
    /\ \E name \in DOMAIN call.kwargs : Undeclared(name) /\ Given(name)
    /\ \E name \in DOMAIN call.kwargs : ~Undeclared(name) /\ Given(name)

\* the body mapping of an invocation: the seed of get_body() and the
\* requestBody properties given
BodyMapping ==
    Overlaid(get_body, IF Op.details.requestBody = "json" THEN GivenProperties ELSE {})

\* C13: when the body mapping built for an invocation is empty the request
\* carries no JSON payload at all; when it is not empty the mapping is the
\* JSON payload.
C13_EmptyBodyOmitted ==
    Sent =>
        IF DOMAIN BodyMapping = {}
        THEN ~Req.hasJson
        ELSE Req.hasJson /\ Req.json = BodyMapping

C13_Witness ==
    /\ Sent
    /\ Op.details.requestBody = "json"
    /\ GivenProperties = {}
    /\ \E name \in DOMAIN call.kwargs : Given(name)
    /\ ~Req.hasJson

\* the request of the invocation was built: the operation is known, its
\* requestBody and the servers are usable, every path placeholder has a value
Built ==
    /\ Found
    /\ ServersUsable
    /\ BodyShapeUsable
    /\ \A name \in Placeholders(TemplateOf(Op.path)) : RoutedToPath(name)

\* C14: an invocation whose request construction succeeds sends exactly one
\* HTTP request, whatever the status of the response and whether or not the
\* transport fails; an invocation whose construction fails sends none.
C14_ExactlyOneRequest ==
    Invoked => Len(requests) = (IF Built THEN 1 ELSE 0)

C14_Witness ==
    /\ Invoked
    /\ Built
    /\ result.response # <<>>
    /\ result.response[1].status_code = 500
    /\ Len(requests) = 1

\* C15: a non-2xx status returned by the API for an invoked operation
\* reaches the tool caller as an error: the tool raises, it returns no value.
C15_NonSuccessSurfaced ==
    (Returned /\ call.name = "tool" /\ result.response # <<>>
              /\ result.response[1].status_code \notin 200..299)
        => result.err # "" /\ result.returned = <<>>

\* the operation the i-th tool was registered for
ToolOperation(i) == get_operations(spec)[i].details

\* the argument names of an operation in declaration order: the declared
\* parameters, then the requestBody properties in schema order
DeclaredArguments(details) ==
    [i \in DOMAIN details.parameters |->
        sanitize_parameter_name(details.parameters[i].name)]
    \o (IF details.requestBody = "json"
        THEN [i \in DOMAIN details.properties |->
                 sanitize_parameter_name(details.properties[i])]
        ELSE <<>>)

PositionIn(names, name) == CHOOSE i \in DOMAIN names : names[i] = name

SignatureNames(signature) == [i \in DOMAIN signature |-> signature[i].name]

\* C16: in the signature of every registered tool the required arguments
\* (those without a default) precede the optional ones, the signature holds
\* the declared parameters and the requestBody properties once each, and
\* within the required group and within the optional group the arguments
\* stand in declaration order, parameters before body properties.
C16_RequiredFirstInDeclarationOrder ==
    \A t \in DOMAIN tools.registered :
        LET signature == tools.registered[t].signature
            declared == DeclaredArguments(ToolOperation(t))
        IN  /\ Len(signature) = Len(declared)
            /\ Range(SignatureNames(signature)) = Range(declared)
            /\ \A i, j \in DOMAIN signature :
                  i < j =>
                      /\ signature[j].required => signature[i].required
                      /\ signature[i].required = signature[j].required
                            => PositionIn(declared, signature[i].name)
                                   < PositionIn(declared, signature[j].name)

C16_Witness ==
    \E t \in DOMAIN tools.registered :
        LET signature == tools.registered[t].signature
        IN  /\ Len(signature) = 4
            /\ SignatureNames(signature) # DeclaredArguments(ToolOperation(t))
            /\ signature[2].required
            /\ ~signature[3].required

\* C17: a requestBody property is in the required group of the signature
\* if and only if its name is in the schema's `required` list, also when
\* sanitization changes the name.
C17_RequiredIffListed ==
    \A t \in DOMAIN tools.registered :
        LET signature == tools.registered[t].signature
            details == ToolOperation(t)
        IN  details.requestBody = "json" =>
                \A prop \in Range(details.properties) :
                    \A i \in DOMAIN signature :
                        signature[i].name = sanitize_parameter_name(prop)
                            => (signature[i].required <=> prop \in Range(details.required))

\* C18: while invoke_operation builds its request, that is until its HTTP
\* request to the API is sent, the call performs no I/O and changes no
\* state of the client, OAuth2 credentials configured or not.
C18_BuildIsPure ==
    \A t \in Threads :
        threads[t].sent = NoRequest => threads[t].posts = 0 /\ threads[t].writes = 0

Refreshing(t) == threads[t].pc \in {"fetch", "await", "store_token", "store_expiry"}

\* C20: under any interleaving of concurrent get_headers calls, once no
\* refresh is in flight access_token and token_expires_at come from the same
\* token response, and every Authorization header built carries a token
\* that the token endpoint issued.
C20_TokenCacheConsistent ==
    /\ (\A t \in Threads : ~Refreshing(t)) => origin.token = origin.expiry
    /\ \A t \in Threads :
          N_Authorization \in DOMAIN threads[t].headers =>
              \E k \in 1..served :
                  threads[t].headers[N_Authorization] = BearerValue(Token(k))

\* the call of the one caller of SpecSession, and what it left
TheCall == threads[Caller]
Begins == threads[Caller].pc = "idle" /\ threads'[Caller].pc # "idle"

\* C21: with the OAuth2 credentials configured get_headers requests a token
\* exactly when none is cached or the time is at or past token_expires_at,
\* which a fetch sets to the time plus the declared expires_in minus 30;
\* otherwise the cached token is sent and no token is requested. Without
\* the credentials no token is requested and no Authorization header added.
C21_TokenFetchedWhenDue ==
    [][/\ (Begins /\ threads'[Caller].pc # "raised") =>
              IF oauth2
              THEN /\ threads'[Caller].pc \in {"fetch", "authorize"}
                   /\ threads'[Caller].pc = "fetch"
                          <=> (access_token = None \/ now >= token_expires_at)
              ELSE threads'[Caller].pc = "request"
       /\ threads'[Caller].posts > TheCall.posts =>
              /\ TheCall.pc = "fetch"
              /\ TheCall.posts = 0
       /\ (TheCall.pc = "store_expiry" /\ threads'[Caller].pc # "store_expiry"
             /\ TheCall.token_data[1].expires_in # <<>>) =>
              token_expires_at' = now + TheCall.token_data[1].expires_in[1] - 30
       /\ (TheCall.pc = "authorize" /\ threads'[Caller].pc = "request") =>
              threads'[Caller].headers[N_Authorization] = BearerValue(access_token)
       /\ ~oauth2 =>
              /\ threads'[Caller].posts = 0
              /\ N_Authorization \notin DOMAIN threads'[Caller].headers
              /\ access_token' = None
      ]_vars

C21_Witness ==
    /\ oauth2
    /\ TheCall.pc = "fetch"
    /\ access_token # None
    /\ now = token_expires_at

\* C22: a call through AuthenticatedOpenAPIClient that the API answers with
\* 401 refreshes the token and sends the request a second time, once,
\* before it returns.
C22_RetriedAfter401 ==
    (TheCall.pc = "returned" /\ oauth2 /\ TheCall.response # <<>>
        /\ TheCall.response[1].status_code = 401)
        => /\ Len(TheCall.sent) = 2
           /\ TheCall.posts >= 1

\* C26: a call with an operationId that no operation carries sends no
\* request to the API and none to the token endpoint, and leaves
\* access_token and token_expires_at as they were.
C26_UnknownIdNoTraffic ==
    (TheCall.pc # "idle" /\ Carrying(TheCall.operation_id) = {})
        => /\ TheCall.posts = 0
           /\ TheCall.sent = NoRequest
           /\ TheCall.writes = 0
           /\ TheCall.pc = "raised"

C26_Witness ==
    /\ TheCall.pc = "raised"
    /\ TheCall.operation_id = Id_op
    /\ oauth2
    /\ access_token # None
    /\ now >= token_expires_at

\* C27: no call changes custom_headers, whether it passes header parameters
\* or fetches a token, so that a request carries, besides the headers of its
\* own call, the custom headers as they were configured.
C27_CustomHeadersNeverChange ==
    [][/\ custom_headers' = custom_headers
       /\ threads'[Caller].sent # NoRequest =>
              \A name \in DOMAIN threads'[Caller].sent[1].headers :
                  \/ name \in {n \in DOMAIN threads'[Caller].kwargs :
                                   threads'[Caller].kwargs[n] # None}
                  \/ name = N_Authorization /\ oauth2
                  \/ /\ name \in DOMAIN custom_headers
                     /\ threads'[Caller].sent[1].headers[name] = custom_headers[name]
      ]_vars

C27_Witness ==
    /\ TheCall.pc = "returned"
    /\ TheCall.posts = 1
    /\ TheCall.kwargs = (N_2v :> StrV)
    /\ TheCall.sent # NoRequest
    /\ TheCall.sent[1].headers[N_2v] = StrV
    /\ N_Authorization \in DOMAIN TheCall.sent[1].headers
    /\ custom_headers = (N_2v :> StrS)

\* the parts of the request that hold, under `name`, the value kwargs gave
InBody(name) ==
    Req.hasJson /\ name \in DOMAIN Req.json /\ Req.json[name] = call.kwargs[name]

PartsHolding(name) ==
    {location \in RoutedLocations :
        /\ name \in DOMAIN PartOf(location)
        /\ PartOf(location)[name] = call.kwargs[name]}
    \cup (IF InBody(name) THEN {"body"} ELSE {})

\* C28: every argument of kwargs sits in at most one part of the request
\* (path, query, header or body), also when its name is declared both as a
\* parameter and as a requestBody property, or as a parameter in two
\* locations.
C28_AtMostOnePart ==
    (Sent /\ call.name = "invoke_operation") =>
        \A name \in DOMAIN call.kwargs :
            Given(name) => Cardinality(PartsHolding(name)) <= 1

\* what invoke_operation raises on a requestBody it cannot read
BodyShapeErrors == {"KeyError: application/json", "KeyError: properties"}

\* C29: the request of every registered tool can be built when its path
\* parameters are given: no call of a tool fails on the requestBody of its
\* operation, be it without application/json content or without
\* properties in its schema.
C29_RegisteredToolsBuildable ==
    (Invoked /\ call.name = "tool") => result.err \notin BodyShapeErrors

\* the API requests of the last call into the ThingsBoard code
ApiRequests == SelectSeq(tb.log, LAMBDA q : q.kind = "api")
Logins == SelectSeq(tb.log, LAMBDA q : q.kind = "login")

\* C23: when the API answers a request with 401, make_thingsboard_request
\* gets a new token from the login endpoint, puts it in _auth_token, and
\* sends the request once more, with the new token.
C23_RefreshedOn401 ==
    (/\ tb.name = "make_thingsboard_request"
     /\ ApiRequests # <<>>
     /\ tb.first = <<Response(401, "json")>>
     /\ tb.login = "token"
     /\ tb.token # None)
        => /\ Len(Logins) = 1
           /\ _auth_token # tb.token
           /\ Len(ApiRequests) = 2
           /\ ApiRequests[2].token = _auth_token

\* the alarm rules of a posted profile
PostedAlarms(q) == q.data.d["profileData"].d["alarms"].l

\* C24: delete_alarm_rule on a profile that holds an alarm rule of the
\* given id posts the profile back without that rule and with every other
\* rule as it was fetched.
C24_AlarmDeleted ==
    (/\ tb.name = "delete_alarm_rule"
     /\ Alarm(tb.alarm_id) \in Range(tb.fetched)
     /\ ApiRequests # <<>>
     /\ tb.first = <<Response(200, "json")>>)
        => \E i \in DOMAIN ApiRequests :
              /\ ApiRequests[i].method = upper(K_post)
              /\ ApiRequests[i].endpoint = "deviceProfile"
              /\ ApiRequests[i].data.t = "dict"
              /\ PostedAlarms(ApiRequests[i])
                    = SelectSeq(tb.fetched, LAMBDA alarm : alarm # Alarm(tb.alarm_id))

\* C25: with the default fields, the dict filter_entity_information returns
\* for a device holds under profileId the id of its deviceProfileId, and for
\* an asset the id of its assetProfileId.
C25_ProfileIdKept ==
    (tb.name = "filter_entity_information" /\ tb.fields = <<>>) =>
        /\ Contains(tb.device, "deviceProfileId") =>
              /\ Contains(tb.returned[1], "profileId")
              /\ tb.returned[1].d["profileId"] = tb.device.d["deviceProfileId"].d["id"]
        /\ Contains(tb.device, "assetProfileId") =>
              /\ Contains(tb.returned[1], "profileId")
              /\ tb.returned[1].d["profileId"] = tb.device.d["assetProfileId"].d["id"]

\* the answer to the last API request of the call was a failure
LastFailed ==
    \/ LastAnswer(tb.log, tb.first[1], tb.second[1]).transport # "ok"
    \/ LastAnswer(tb.log, tb.first[1], tb.second[1]).status_code >= 400

\* C30: make_thingsboard_request raises for no HTTP or transport failure of
\* its API request or of the repetition after a 401: it returns a dict with
\* an `error` key, after two API requests at most.
C30_FailuresReturned ==
    (tb.name = "make_thingsboard_request" /\ ApiRequests # <<>>) =>
        /\ Len(ApiRequests) <= 2
        /\ LastFailed =>
              /\ tb.raised = ""
              /\ Contains(tb.returned[1], "error")


====
